---- MODULE Spec2Model ----
(***************************************************************************)
(* State-machine model of the github-identity Soroban contract             *)
(* (src/github-identity/src/{lib,storage,types}.rs).                       *)
(*                                                                         *)
(* The contract's storage is modelled key family by key family: the        *)
(* persistent entries CONFIG, TOKEN_CTR, (TOK,id), (HLD,holder),           *)
(* (HAS,holder), the temporary entries (NON,holder) with their             *)
(* live-until ledger, the host ledger (sequence number and timestamp) and  *)
(* the contract event stream.  Every storage helper and every entry point  *)
(* is an operator over an environment record `e` that mirrors `&Env`; an   *)
(* entry point returns [result, env].  Actions apply the entry points to   *)
(* the current environment.                                                *)
(***************************************************************************)
EXTENDS Integers, Sequences, FiniteSets, TLC

VARIABLES
    config,      \* persistent CONFIG: <<>> (absent) or <<Config>>
    token_ctr,   \* persistent TOKEN_CTR: <<>> (absent) or <<u64>>
    tok,         \* persistent (TOK, token_id) -> GithubData, partial
    hld,         \* persistent (HLD, holder) -> token_id, partial
    has,         \* persistent (HAS, holder) -> bool, partial
    non,         \* temporary (NON, holder) -> [val, live_until], partial
    sequence,    \* host ledger sequence number
    timestamp,   \* host ledger timestamp
    events       \* contract events published so far

vars == <<config, token_ctr, tok, hld, has, non, sequence, timestamp, events>>

----------------------------------------------------------------------------
(* Bounds of the model *)

NumAddresses == 2     \* addresses that invoke the contract
MaxEvents == 2        \* events the model lets the contract publish
MaxSequence == 518401 \* last ledger sequence the model follows the host to
MaxClosed == 1          \* ledgers closed one at a time after deployment

(* Input domains *)
Address == 1..NumAddresses
Usernames == {"", "alice"}
Contributions == {1500, 3500}
ProofData == {<<>>, <<7>>}
Signatures == {0}
Referrers == {<<>>}
MintFees == {0, 1}
TokenIds == 1..(NumAddresses + 1)
Nonces == 0..1

----------------------------------------------------------------------------
(* types.rs: Error *)

AlreadyHasIdentity == 1
NoIdentityFound == 2
InvalidNonce == 4
InvalidSignature == 5
InsufficientPayment == 6
EmptyUsername == 8
NotInitialized == 9
NotAdmin == 10
TokenNotFound == 11
Unauthorized == 13
AlreadyInitialized == 14

(* Result<T, Error> and Option<T> *)
Ok(v) == [tag |-> "Ok", val |-> v]
Err(c) == [tag |-> "Err", val |-> c]
IsOk(r) == r.tag = "Ok"
IsErr(r, c) == r.tag = "Err" /\ r.val = c
Unit == 0

None == <<>>
Some(v) == <<v>>

(* types.rs: Tier *)
Tiers == {"Novice", "Pro", "Architect", "Legend", "Singularity"}

\* Mutant: the lower bound of Pro is exclusive.
from_contributions_ExclusiveBound(contributions) ==
    IF contributions >= 5000 THEN "Singularity"
    ELSE IF contributions >= 3000 /\ contributions <= 4999 THEN "Legend"
    ELSE IF contributions >= 1000 /\ contributions <= 2999 THEN "Architect"
    ELSE IF contributions > 200 /\ contributions <= 999 THEN "Pro"
    ELSE "Novice"

from_contributions(contributions) ==
    IF contributions >= 5000 THEN "Singularity"
    ELSE IF contributions >= 3000 /\ contributions <= 4999 THEN "Legend"
    ELSE IF contributions >= 1000 /\ contributions <= 2999 THEN "Architect"
    ELSE IF contributions >= 200 /\ contributions <= 999 THEN "Pro"
    ELSE "Novice"

to_number(tier) ==
    CASE tier = "Novice" -> 1
      [] tier = "Pro" -> 2
      [] tier = "Architect" -> 3
      [] tier = "Legend" -> 4
      [] tier = "Singularity" -> 5

(* types.rs: generate_svg, the badge as its (fill, text colour, label) *)
SvgTemplate(fill, color, label) ==
    <<"<svg xmlns='http://www.w3.org/2000/svg' width='350' height='200'><rect width='100%' height='100%' fill='",
      fill, "'/><text x='50%' y='100' font-size='24' fill='", color,
      "' text-anchor='middle'>", label, "</text></svg>">>

\* Mutant: Legend is drawn with the dark text colour of the lower tiers.
generate_svg_DarkLegend(data) ==
    CASE data.tier = "Novice" -> SvgTemplate("#b0c4de", "#181c2f", "Novice")
      [] data.tier = "Pro" -> SvgTemplate("#90ee90", "#181c2f", "Pro")
      [] data.tier = "Architect" -> SvgTemplate("#ffd700", "#181c2f", "Architect")
      [] data.tier = "Legend" -> SvgTemplate("#ff8c00", "#181c2f", "Legend")
      [] data.tier = "Singularity" -> SvgTemplate("#8a2be2", "#fff", "Singularity")

generate_svg(data) ==
    CASE data.tier = "Novice" -> SvgTemplate("#b0c4de", "#181c2f", "Novice")
      [] data.tier = "Pro" -> SvgTemplate("#90ee90", "#181c2f", "Pro")
      [] data.tier = "Architect" -> SvgTemplate("#ffd700", "#181c2f", "Architect")
      [] data.tier = "Legend" -> SvgTemplate("#ff8c00", "#fff", "Legend")
      [] data.tier = "Singularity" -> SvgTemplate("#8a2be2", "#fff", "Singularity")

----------------------------------------------------------------------------
(* storage.rs *)

THIRTY_DAYS_IN_LEDGERS == 518400

(* env.storage().temporary(): an entry is readable while its live-until
   ledger has not passed *)
TemporaryLive(e, holder) ==
    holder \in DOMAIN e.non /\ e.non[holder].live_until >= e.sequence

set_config(e, cfg) == [e EXCEPT !.config = Some(cfg)]

get_config(e) ==
    IF e.config = None THEN Err(NotInitialized) ELSE Ok(e.config[1])

get_admin(e) ==
    LET c == get_config(e) IN IF IsOk(c) THEN Ok(c.val.admin) ELSE c

get_access_control(e) ==
    LET c == get_config(e) IN IF IsOk(c) THEN Ok(c.val.access_control) ELSE c

get_treasury(e) ==
    LET c == get_config(e) IN IF IsOk(c) THEN Ok(c.val.treasury) ELSE c

get_mint_fee(e) ==
    LET c == get_config(e) IN IF IsOk(c) THEN c.val.mint_fee ELSE 0

get_next_token_id(e) ==
    IF e.token_ctr = None THEN 1 ELSE e.token_ctr[1]

\* Mutant: the counter is written back without the increment.
increment_token_counter_Stuck(e) ==
    LET current == get_next_token_id(e)
    IN  [e EXCEPT !.token_ctr = Some(current)]

increment_token_counter(e) ==
    LET current == get_next_token_id(e)
    IN  [e EXCEPT !.token_ctr = Some(current + 1)]

\* Mutant: the identity record is never written.
set_token_data_Dropped(e, token_id, data) == e

set_token_data(e, token_id, data) ==
    [e EXCEPT !.tok = (token_id :> data) @@ e.tok]

get_token_data(e, token_id) ==
    IF token_id \in DOMAIN e.tok THEN Ok(e.tok[token_id]) ELSE Err(TokenNotFound)

update_token_data(e, token_id, data) ==
    IF token_id \notin DOMAIN e.tok
    THEN [result |-> Err(TokenNotFound), env |-> e]
    ELSE [result |-> Ok(Unit), env |-> [e EXCEPT !.tok = (token_id :> data) @@ e.tok]]

\* Mutant: the holder's token pointer is never written.
set_holder_token_Dropped(e, holder, token_id) == e

set_holder_token(e, holder, token_id) ==
    [e EXCEPT !.hld = (holder :> token_id) @@ e.hld]

get_holder_token(e, holder) ==
    IF holder \in DOMAIN e.hld THEN Ok(e.hld[holder]) ELSE Err(NoIdentityFound)

\* Mutant: the flag is written under the wrong value.
set_has_identity_Negated(e, holder, flag) ==
    [e EXCEPT !.has = (holder :> ~flag) @@ e.has]

set_has_identity(e, holder, flag) ==
    [e EXCEPT !.has = (holder :> flag) @@ e.has]

\* Mutant: the flag lapses together with the holder's temporary nonce record.
has_identity_LapsesWithNonce(e, holder) ==
    IF holder \in DOMAIN e.has /\ TemporaryLive(e, holder) THEN e.has[holder] ELSE FALSE

has_identity(e, holder) ==
    IF holder \in DOMAIN e.has THEN e.has[holder] ELSE FALSE

get_nonce(e, user) ==
    IF TemporaryLive(e, user) THEN e.non[user].val ELSE 0

\* Mutant: the nonce advances by two.
increment_nonce_ByTwo(e, user) ==
    LET current == get_nonce(e, user)
    IN  [e EXCEPT !.non =
            (user :> [val |-> current + 2,
                      live_until |-> e.sequence + THIRTY_DAYS_IN_LEDGERS]) @@ e.non]

increment_nonce(e, user) ==
    LET current == get_nonce(e, user)
    IN  [e EXCEPT !.non =
            (user :> [val |-> current + 1,
                      live_until |-> e.sequence + THIRTY_DAYS_IN_LEDGERS]) @@ e.non]

----------------------------------------------------------------------------
(* lib.rs: GithubIdentityContract *)

\* Mutant: the event is not published.
publish_Dropped(e, topic, caller, token_id, username, contributions, tier) == e

publish(e, topic, caller, token_id, username, contributions, tier) ==
    [e EXCEPT !.events = Append(e.events,
        [topic |-> topic, caller |-> caller, token_id |-> token_id,
         username |-> username, contributions |-> contributions, tier |-> tier])]

\* Mutant: the existing Config is not looked for.
initialize_NoCheck(e, admin, access_control, treasury, mint_fee) ==
    [result |-> Ok(Unit),
     env |-> set_config(e, [admin |-> admin, access_control |-> access_control,
                            treasury |-> treasury, mint_fee |-> mint_fee])]

initialize(e, admin, access_control, treasury, mint_fee) ==
    IF IsOk(get_config(e))
    THEN [result |-> Err(AlreadyInitialized), env |-> e]
    ELSE [result |-> Ok(Unit),
          env |-> set_config(e, [admin |-> admin, access_control |-> access_control,
                                 treasury |-> treasury, mint_fee |-> mint_fee])]

\* Mutant: the token id is read after the counter has been advanced.
mint_commit_IdAfterIncrement(e, caller, username, contributions, proof_data) ==
    LET e1 == increment_nonce(e, caller)
        e2 == increment_token_counter(e1)
        token_id == get_next_token_id(e2)
        tier == from_contributions(contributions)
        github_data == [username |-> username, contributions |-> contributions,
                        tier |-> tier, minted_at |-> e2.timestamp,
                        updated_at |-> e2.timestamp, proof_data |-> proof_data]
        e3 == set_token_data(e2, token_id, github_data)
        e4 == set_holder_token(e3, caller, token_id)
        e5 == set_has_identity(e4, caller, TRUE)
        e6 == publish(e5, "identity_minted", caller, token_id, username,
                      contributions, tier)
    IN  [result |-> Ok(token_id), env |-> e6]

\* mint, lines 72-96: the writes and the event of a mint that passed its checks
mint_commit(e, caller, username, contributions, proof_data) ==
    LET e1 == increment_nonce(e, caller)
        token_id == get_next_token_id(e1)
        e2 == increment_token_counter(e1)
        tier == from_contributions(contributions)
        github_data == [username |-> username, contributions |-> contributions,
                        tier |-> tier, minted_at |-> e2.timestamp,
                        updated_at |-> e2.timestamp, proof_data |-> proof_data]
        e3 == set_token_data(e2, token_id, github_data)
        e4 == set_holder_token(e3, caller, token_id)
        e5 == set_has_identity(e4, caller, TRUE)
        e6 == publish(e5, "identity_minted", caller, token_id, username,
                      contributions, tier)
    IN  [result |-> Ok(token_id), env |-> e6]

\* Mutant: the has_identity check is missing.
mint_NoIdentityCheck(e, caller, signature, username, contributions, proof_data, referrer, nonce) ==
    IF Len(username) = 0 THEN [result |-> Err(EmptyUsername), env |-> e]
    ELSE IF nonce # get_nonce(e, caller) THEN [result |-> Err(InvalidNonce), env |-> e]
    ELSE IF get_mint_fee(e) > 0 THEN [result |-> Err(InsufficientPayment), env |-> e]
    ELSE mint_commit(e, caller, username, contributions, proof_data)

\* Mutant: the supplied nonce is not compared with the holder's nonce.
mint_NoNonceCheck(e, caller, signature, username, contributions, proof_data, referrer, nonce) ==
    IF Len(username) = 0 THEN [result |-> Err(EmptyUsername), env |-> e]
    ELSE IF has_identity(e, caller) THEN [result |-> Err(AlreadyHasIdentity), env |-> e]
    ELSE IF get_mint_fee(e) > 0 THEN [result |-> Err(InsufficientPayment), env |-> e]
    ELSE mint_commit(e, caller, username, contributions, proof_data)

\* Mutant: the fee comparison is inverted.
mint_FeeCheckInverted(e, caller, signature, username, contributions, proof_data, referrer, nonce) ==
    IF Len(username) = 0 THEN [result |-> Err(EmptyUsername), env |-> e]
    ELSE IF has_identity(e, caller) THEN [result |-> Err(AlreadyHasIdentity), env |-> e]
    ELSE IF nonce # get_nonce(e, caller) THEN [result |-> Err(InvalidNonce), env |-> e]
    ELSE IF get_mint_fee(e) < 0 THEN [result |-> Err(InsufficientPayment), env |-> e]
    ELSE mint_commit(e, caller, username, contributions, proof_data)

\* Mutant: a signature other than the all-zero one is rejected.
mint_VerifiesSignature(e, caller, signature, username, contributions, proof_data, referrer, nonce) ==
    IF Len(username) = 0 THEN [result |-> Err(EmptyUsername), env |-> e]
    ELSE IF has_identity(e, caller) THEN [result |-> Err(AlreadyHasIdentity), env |-> e]
    ELSE IF nonce # get_nonce(e, caller) THEN [result |-> Err(InvalidNonce), env |-> e]
    ELSE IF signature # 0 THEN [result |-> Err(InvalidSignature), env |-> e]
    ELSE IF get_mint_fee(e) > 0 THEN [result |-> Err(InsufficientPayment), env |-> e]
    ELSE mint_commit(e, caller, username, contributions, proof_data)

\* Mutant: the nonce is compared before the identity flag is looked at.
mint_NonceBeforeIdentity(e, caller, signature, username, contributions, proof_data, referrer, nonce) ==
    IF Len(username) = 0 THEN [result |-> Err(EmptyUsername), env |-> e]
    ELSE IF nonce # get_nonce(e, caller) THEN [result |-> Err(InvalidNonce), env |-> e]
    ELSE IF has_identity(e, caller) THEN [result |-> Err(AlreadyHasIdentity), env |-> e]
    ELSE IF get_mint_fee(e) > 0 THEN [result |-> Err(InsufficientPayment), env |-> e]
    ELSE mint_commit(e, caller, username, contributions, proof_data)

\* Mutant: the fee is checked after the nonce has been consumed.
mint_FeeCheckedLate(e, caller, signature, username, contributions, proof_data, referrer, nonce) ==
    IF Len(username) = 0 THEN [result |-> Err(EmptyUsername), env |-> e]
    ELSE IF has_identity(e, caller) THEN [result |-> Err(AlreadyHasIdentity), env |-> e]
    ELSE IF nonce # get_nonce(e, caller) THEN [result |-> Err(InvalidNonce), env |-> e]
    ELSE IF get_mint_fee(e) > 0
         THEN [result |-> Err(InsufficientPayment), env |-> increment_nonce(e, caller)]
    ELSE mint_commit(e, caller, username, contributions, proof_data)

mint(e, caller, signature, username, contributions, proof_data, referrer, nonce) ==
    IF Len(username) = 0 THEN [result |-> Err(EmptyUsername), env |-> e]
    ELSE IF has_identity(e, caller) THEN [result |-> Err(AlreadyHasIdentity), env |-> e]
    ELSE IF nonce # get_nonce(e, caller) THEN [result |-> Err(InvalidNonce), env |-> e]
    ELSE IF get_mint_fee(e) > 0 THEN [result |-> Err(InsufficientPayment), env |-> e]
    ELSE mint_commit(e, caller, username, contributions, proof_data)

\* Mutant: the tier of the record is not recomputed.
update_token_commit_StaleTier(e, caller, token_id, username, contributions, proof_data) ==
    LET tier == from_contributions(contributions)
        got == get_token_data(e, token_id)
    IN  IF ~IsOk(got) THEN [result |-> got, env |-> e]
        ELSE
          LET data == [got.val EXCEPT !.username = username,
                                      !.contributions = contributions,
                                      !.updated_at = e.timestamp,
                                      !.proof_data = proof_data]
              upd == update_token_data(e, token_id, data)
          IN  IF ~IsOk(upd.result) THEN upd
              ELSE [result |-> Ok(Unit),
                    env |-> publish(upd.env, "identity_updated", caller, token_id,
                                    username, contributions, tier)]

\* Mutant: the record is rebuilt as at mint time, minted_at included.
update_token_commit_Remints(e, caller, token_id, username, contributions, proof_data) ==
    LET tier == from_contributions(contributions)
        got == get_token_data(e, token_id)
    IN  IF ~IsOk(got) THEN [result |-> got, env |-> e]
        ELSE
          LET data == [got.val EXCEPT !.username = username,
                                      !.contributions = contributions,
                                      !.tier = tier,
                                      !.minted_at = e.timestamp,
                                      !.updated_at = e.timestamp,
                                      !.proof_data = proof_data]
              upd == update_token_data(e, token_id, data)
          IN  IF ~IsOk(upd.result) THEN upd
              ELSE [result |-> Ok(Unit),
                    env |-> publish(upd.env, "identity_updated", caller, token_id,
                                    username, contributions, tier)]

\* update_token, lines 114-130: the rewrite of the record and the event
update_token_commit(e, caller, token_id, username, contributions, proof_data) ==
    LET tier == from_contributions(contributions)
        got == get_token_data(e, token_id)
    IN  IF ~IsOk(got) THEN [result |-> got, env |-> e]
        ELSE
          LET data == [got.val EXCEPT !.username = username,
                                      !.contributions = contributions,
                                      !.tier = tier,
                                      !.updated_at = e.timestamp,
                                      !.proof_data = proof_data]
              upd == update_token_data(e, token_id, data)
          IN  IF ~IsOk(upd.result) THEN upd
              ELSE [result |-> Ok(Unit),
                    env |-> publish(upd.env, "identity_updated", caller, token_id,
                                    username, contributions, tier)]

\* Mutant: the caller's token is not compared with the supplied token_id.
update_token_NoOwnerCheck(e, caller, token_id, username, contributions, proof_data) ==
    LET holder_token == get_holder_token(e, caller) IN
    IF ~IsOk(holder_token) THEN [result |-> holder_token, env |-> e]
    ELSE update_token_commit(e, caller, token_id, username, contributions, proof_data)

\* Mutant: an update also restarts the caller's replay counter.
update_token_ResetsNonce(e, caller, token_id, username, contributions, proof_data) ==
    LET holder_token == get_holder_token(e, caller) IN
    IF ~IsOk(holder_token) THEN [result |-> holder_token, env |-> e]
    ELSE IF holder_token.val # token_id THEN [result |-> Err(Unauthorized), env |-> e]
    ELSE LET r == update_token_commit(e, caller, token_id, username, contributions,
                                      proof_data)
         IN  [result |-> r.result,
              env |-> [r.env EXCEPT !.non =
                        [h \in DOMAIN r.env.non \ {caller} |-> r.env.non[h]]]]

update_token(e, caller, token_id, username, contributions, proof_data) ==
    LET holder_token == get_holder_token(e, caller) IN
    IF ~IsOk(holder_token) THEN [result |-> holder_token, env |-> e]
    ELSE IF holder_token.val # token_id THEN [result |-> Err(Unauthorized), env |-> e]
    ELSE update_token_commit(e, caller, token_id, username, contributions, proof_data)

get_user_token(e, user) == get_holder_token(e, user)

get_token_svg(e, token_id) ==
    LET data == get_token_data(e, token_id)
    IN  IF IsOk(data) THEN Ok(generate_svg(data.val)) ELSE data

list_tokens_of_user(e, user) ==
    LET t == get_holder_token(e, user)
    IN  IF IsOk(t) THEN <<t.val>> ELSE <<>>

\* Mutant: the caller is not compared with the stored admin.
assert_admin_NoCompare(e, caller) ==
    LET stored_admin == get_admin(e) IN
    IF ~IsOk(stored_admin) THEN stored_admin
    ELSE Ok(Unit)

\* Mutant: a missing Config is reported as a caller that is not the admin.
assert_admin_MissingIsNotAdmin(e, caller) ==
    LET stored_admin == get_admin(e) IN
    IF ~IsOk(stored_admin) THEN Err(NotAdmin)
    ELSE IF caller # stored_admin.val THEN Err(NotAdmin)
    ELSE Ok(Unit)

assert_admin(e, caller) ==
    LET stored_admin == get_admin(e) IN
    IF ~IsOk(stored_admin) THEN stored_admin
    ELSE IF caller # stored_admin.val THEN Err(NotAdmin)
    ELSE Ok(Unit)

set_mint_fee(e, admin, new_fee) ==
    LET a == assert_admin(e, admin) IN
    IF ~IsOk(a) THEN [result |-> a, env |-> e]
    ELSE LET c == get_config(e) IN
         IF ~IsOk(c) THEN [result |-> c, env |-> e]
         ELSE [result |-> Ok(Unit),
               env |-> set_config(e, [c.val EXCEPT !.mint_fee = new_fee])]

set_access_control(e, admin, access_control) ==
    LET a == assert_admin(e, admin) IN
    IF ~IsOk(a) THEN [result |-> a, env |-> e]
    ELSE LET c == get_config(e) IN
         IF ~IsOk(c) THEN [result |-> c, env |-> e]
         ELSE [result |-> Ok(Unit),
               env |-> set_config(e, [c.val EXCEPT !.access_control = access_control])]

set_treasury(e, admin, treasury) ==
    LET a == assert_admin(e, admin) IN
    IF ~IsOk(a) THEN [result |-> a, env |-> e]
    ELSE LET c == get_config(e) IN
         IF ~IsOk(c) THEN [result |-> c, env |-> e]
         ELSE [result |-> Ok(Unit),
               env |-> set_config(e, [c.val EXCEPT !.treasury = treasury])]

----------------------------------------------------------------------------
(* The state machine *)

\* The current environment, as the entry points receive it.
Env ==
    [config |-> config, token_ctr |-> token_ctr, tok |-> tok, hld |-> hld,
     has |-> has, non |-> non, sequence |-> sequence, timestamp |-> timestamp,
     events |-> events]

\* The host ends an invocation that returned r: the writes and events of one
\* that returned Ok are committed, those of one that returned Err are
\* discarded.
Commit(op, r) ==
    LET after == IF IsOk(r.result) THEN r.env ELSE Env
    IN  /\ config' = after.config
        /\ token_ctr' = after.token_ctr
        /\ tok' = after.tok
        /\ hld' = after.hld
        /\ has' = after.has
        /\ non' = after.non
        /\ events' = after.events
        /\ UNCHANGED <<sequence, timestamp>>

\* A read-only invocation: the accessor is evaluated to v, which goes back to
\* the caller, and nothing is written.
Answer(op, v) ==
    /\ v = v
    /\ UNCHANGED vars

EmptyMap == [x \in {} |-> 0]

Init ==
    /\ config = None
    /\ token_ctr = None
    /\ tok = EmptyMap
    /\ hld = EmptyMap
    /\ has = EmptyMap
    /\ non = EmptyMap
    /\ sequence = 0
    /\ timestamp = 0
    /\ events = <<>>

\* The argument tuples the entry points can be invoked with.
InitializeCalls ==
    [admin : Address, access_control : Address, treasury : Address, mint_fee : MintFees]

MintCalls ==
    [caller : Address, signature : Signatures, username : Usernames,
     contributions : Contributions, proof_data : ProofData, referrer : Referrers,
     nonce : Nonces]

UpdateTokenCalls ==
    [caller : Address, token_id : TokenIds, username : Usernames,
     contributions : Contributions, proof_data : ProofData]

SetMintFeeCalls == [admin : Address, new_fee : MintFees]
SetAccessControlCalls == [admin : Address, access_control : Address]
SetTreasuryCalls == [admin : Address, treasury : Address]

CallInitialize(e, a) == initialize(e, a.admin, a.access_control, a.treasury, a.mint_fee)
CallMint(e, a) ==
    mint(e, a.caller, a.signature, a.username, a.contributions, a.proof_data,
         a.referrer, a.nonce)
CallUpdateToken(e, a) ==
    update_token(e, a.caller, a.token_id, a.username, a.contributions, a.proof_data)
CallSetMintFee(e, a) == set_mint_fee(e, a.admin, a.new_fee)
CallSetAccessControl(e, a) == set_access_control(e, a.admin, a.access_control)
CallSetTreasury(e, a) == set_treasury(e, a.admin, a.treasury)

\* The mints and updates the behaviours are built from are sent as the
\* repository's test helper mint_for and its update tests send them: with the
\* stub signature, no referrer and an empty proof.  Every other entry point is
\* sent every tuple of its set above.  The properties below evaluate the entry
\* points on every tuple of the full sets, in every state these behaviours
\* reach.
MintSent ==
    {a \in MintCalls : a.signature = 0 /\ a.referrer = <<>> /\ a.proof_data = <<>>}
UpdateTokenSent == {a \in UpdateTokenCalls : a.proof_data = <<>>}

Initialize ==
    \E a \in InitializeCalls : Commit("initialize", CallInitialize(Env, a))

Mint ==
    \E a \in MintSent :
        LET r == CallMint(Env, a)
        IN  Len(r.env.events) <= MaxEvents /\ Commit("mint", r)

UpdateToken ==
    \E a \in UpdateTokenSent :
        LET r == CallUpdateToken(Env, a)
        IN  Len(r.env.events) <= MaxEvents /\ Commit("update_token", r)

SetMintFee ==
    \E a \in SetMintFeeCalls : Commit("set_mint_fee", CallSetMintFee(Env, a))

SetAccessControl ==
    \E a \in SetAccessControlCalls :
        Commit("set_access_control", CallSetAccessControl(Env, a))

SetTreasury ==
    \E a \in SetTreasuryCalls : Commit("set_treasury", CallSetTreasury(Env, a))

GetTokenData ==
    \E token_id \in TokenIds : Answer("get_token_data", get_token_data(Env, token_id))

GetUserToken ==
    \E user \in Address : Answer("get_user_token", get_user_token(Env, user))

HasIdentity ==
    \E user \in Address : Answer("has_identity", Ok(has_identity(Env, user)))

GetNonce ==
    \E user \in Address : Answer("get_nonce", Ok(get_nonce(Env, user)))

GetMintFee ==
    Answer("get_mint_fee", Ok(get_mint_fee(Env)))

GetTokenSvg ==
    \E token_id \in TokenIds : Answer("get_token_svg", get_token_svg(Env, token_id))

ListTokensOfUser ==
    \E user \in Address : Answer("list_tokens_of_user", Ok(list_tokens_of_user(Env, user)))

\* The host closes ledgers between invocations; the contract sees the ledger
\* through env.ledger().timestamp() and through the live-until ledger of its
\* temporary entries.  The close time is the host's: ledger s closes s seconds
\* after the first, as in a test that moves both by the same amount, or five
\* times that, as on the network; the clock never runs backwards.
SecondsPerLedger == {1, 5}

\* The ledger moves on to sequence s, the clock with it, and the temporary
\* entries whose live-until ledger has passed are evicted.
LedgerCloses(s, rate) ==
    /\ s > sequence
    /\ rate * s >= timestamp
    /\ sequence' = s
    /\ timestamp' = rate * s
    /\ non' = [h \in {x \in DOMAIN non : non[x].live_until >= s} |-> non[h]]
    /\ UNCHANGED <<config, token_ctr, tok, hld, has, events>>

\* One ledger closes, in the first ledgers after deployment.
CloseLedger ==
    \E rate \in SecondsPerLedger :
        /\ sequence < MaxClosed
        /\ LedgerCloses(sequence + 1, rate)

\* Many ledgers close at once, up to a ledger on either side of the thirty-day
\* lifetime of a nonce written at the start.
LedgerPoints == (THIRTY_DAYS_IN_LEDGERS - 1) .. MaxSequence

AdvanceLedger ==
    \E s \in LedgerPoints, rate \in SecondsPerLedger : LedgerCloses(s, rate)

Next ==
    \/ Initialize
    \/ Mint
    \/ UpdateToken
    \/ SetMintFee
    \/ SetAccessControl
    \/ SetTreasury
    \/ GetTokenData
    \/ GetUserToken
    \/ HasIdentity
    \/ GetNonce
    \/ GetMintFee
    \/ GetTokenSvg
    \/ ListTokensOfUser
    \/ CloseLedger
    \/ AdvanceLedger

\* The whole contract under its host: every entry point, invoked by anyone
\* with any arguments, and the ledger closing in between.
Spec == Init /\ [][Next]_vars

----------------------------------------------------------------------------
(* Properties *)

\* P holds of every invocation of a state-writing entry point from
\* environment e, given as its name, its caller, and its result with the
\* environment it leaves.
EveryInvocation(e, P(_)) ==
    /\ \A a \in InitializeCalls :
        P([op |-> "initialize", caller |-> a.admin, r |-> CallInitialize(e, a)])
    /\ \A a \in MintCalls :
        P([op |-> "mint", caller |-> a.caller, r |-> CallMint(e, a)])
    /\ \A a \in UpdateTokenCalls :
        P([op |-> "update_token", caller |-> a.caller, r |-> CallUpdateToken(e, a)])
    /\ \A a \in SetMintFeeCalls :
        P([op |-> "set_mint_fee", caller |-> a.admin, r |-> CallSetMintFee(e, a)])
    /\ \A a \in SetAccessControlCalls :
        P([op |-> "set_access_control", caller |-> a.admin,
           r |-> CallSetAccessControl(e, a)])
    /\ \A a \in SetTreasuryCalls :
        P([op |-> "set_treasury", caller |-> a.admin, r |-> CallSetTreasury(e, a)])

\* P holds of some invocation of a state-writing entry point from e.
SomeInvocation(e, P(_)) ==
    LET NotP(i) == ~P(i) IN ~EveryInvocation(e, NotP)

\* The token ids of the identity_minted events, in publication order.
RECURSIVE MintedIds(_)
MintedIds(log) ==
    IF log = <<>> THEN <<>>
    ELSE LET rest == MintedIds(SubSeq(log, 1, Len(log) - 1))
             last == log[Len(log)]
         IN  IF last.topic = "identity_minted" THEN Append(rest, last.token_id)
             ELSE rest

\* C1 (as stated): in every reachable state, every mint whose caller already
\* has an identity fails with AlreadyHasIdentity and leaves the whole state
\* (records, holder mapping, flags, counter, nonces, config) as it was.
C1_Original ==
    \A a \in MintCalls :
        has_identity(Env, a.caller) =>
            LET r == CallMint(Env, a)
            IN  IsErr(r.result, AlreadyHasIdentity) /\ r.env = Env

\* C1 (amended): in every reachable state, every mint whose caller already has
\* an identity fails and leaves the whole state as it was; the error is
\* AlreadyHasIdentity when the username is non-empty (EmptyUsername otherwise).
C1_SecondMintRejected ==
    \A a \in MintCalls :
        has_identity(Env, a.caller) =>
            LET r == CallMint(Env, a)
            IN  /\ r.env = Env
                /\ ~IsOk(r.result)
                /\ a.username # "" => IsErr(r.result, AlreadyHasIdentity)
                /\ a.username = "" => IsErr(r.result, EmptyUsername)

\* C1 witness: a holder has minted, and minting again for that holder with a
\* non-empty username and the holder's current nonce is rejected.
C1_Witness ==
    \E a \in MintCalls :
        /\ has_identity(Env, a.caller)
        /\ a.username # ""
        /\ a.nonce = get_nonce(Env, a.caller)
        /\ get_mint_fee(Env) = 0
        /\ IsErr(CallMint(Env, a).result, AlreadyHasIdentity)

\* C2: token ids are assigned 1, 2, 3, ... with no gap and no reuse: the k-th
\* identity minted carries id k, a successful mint returns the counter and
\* advances it by exactly 1, and every failed mint, every other entry point
\* and every host step leaves the counter alone.
C2_CounterState ==
    /\ get_next_token_id(Env) >= 1
    /\ MintedIds(events) = [i \in 1..(get_next_token_id(Env) - 1) |-> i]
    /\ DOMAIN tok = 1..(get_next_token_id(Env) - 1)
    /\ EveryInvocation(Env, LAMBDA i :
        IF i.op = "mint" /\ IsOk(i.r.result)
        THEN /\ i.r.result.val = get_next_token_id(Env)
             /\ get_next_token_id(i.r.env) = get_next_token_id(Env) + 1
        ELSE get_next_token_id(i.r.env) = get_next_token_id(Env))

C2_CounterStep ==
    get_next_token_id(Env') # get_next_token_id(Env) =>
        /\ get_next_token_id(Env') = get_next_token_id(Env) + 1
        /\ \E a \in MintCalls :
            /\ IsOk(CallMint(Env, a).result)
            /\ CallMint(Env, a).env = Env'

C2_SequentialTokenIds == []C2_CounterState /\ [][C2_CounterStep]_vars

\* C2 witness: two holders have minted, the first got id 1 and the second
\* id 2, and the counter stands at 3.
C2_Witness ==
    /\ get_next_token_id(Env) = 3
    /\ MintedIds(events) = <<1, 2>>
    /\ \E h1 \in Address, h2 \in Address :
        h1 # h2 /\ get_user_token(Env, h1) = Ok(1) /\ get_user_token(Env, h2) = Ok(2)

\* C3: a mint with a non-empty username by a holder without identity that
\* supplies a nonce other than get_nonce(caller) fails with InvalidNonce and
\* advances neither the token counter nor the nonce nor anything else.
C3_WrongNonceRejected ==
    \A a \in MintCalls :
        (a.username # "" /\ ~has_identity(Env, a.caller)
            /\ a.nonce # get_nonce(Env, a.caller)) =>
            LET r == CallMint(Env, a)
            IN  /\ IsErr(r.result, InvalidNonce)
                /\ get_next_token_id(r.env) = get_next_token_id(Env)
                /\ get_nonce(r.env, a.caller) = get_nonce(Env, a.caller)
                /\ r.env = Env

\* C3 witness: after another holder has minted (so the counter has advanced),
\* a holder without identity supplies a wrong nonce and gets InvalidNonce.
C3_Witness ==
    \E a \in MintCalls :
        /\ get_next_token_id(Env) > 1
        /\ a.username # ""
        /\ ~has_identity(Env, a.caller)
        /\ a.nonce # get_nonce(Env, a.caller)
        /\ IsErr(CallMint(Env, a).result, InvalidNonce)

\* C4: a holder's nonce starts at 0 (it is 0 for every holder that has not
\* minted), a successful mint by h with supplied nonce n leaves
\* get_nonce(h) = n + 1, and no other invocation (failed mint, mint by another
\* holder, update_token, initialize, the admin setters) changes get_nonce(h).
C4_NonceInvocations ==
    /\ \A h \in Address : ~has_identity(Env, h) => get_nonce(Env, h) = 0
    /\ \A a \in MintCalls :
        LET r == CallMint(Env, a)
        IN  /\ IsOk(r.result) =>
                /\ a.nonce = get_nonce(Env, a.caller)
                /\ get_nonce(r.env, a.caller) = a.nonce + 1
            /\ \A h \in Address :
                (~IsOk(r.result) \/ h # a.caller) =>
                    get_nonce(r.env, h) = get_nonce(Env, h)
    /\ EveryInvocation(Env, LAMBDA i :
        i.op # "mint" => \A h \in Address : get_nonce(i.r.env, h) = get_nonce(Env, h))

\* A step that changes what get_nonce(h) returns is h's successful mint,
\* which advances it by 1, or the host evicting the expired record.
C4_NonceStep ==
    \A h \in Address :
        get_nonce(Env', h) # get_nonce(Env, h) =>
            \/ /\ get_nonce(Env', h) = get_nonce(Env, h) + 1
               /\ ~has_identity(Env, h) /\ has_identity(Env', h)
               /\ sequence' = sequence
            \/ sequence' > sequence

C4_NonceAdvancesOnlyOnMint == []C4_NonceInvocations /\ [][C4_NonceStep]_vars

\* C4 witness: a holder has minted with nonce 0 and now reads nonce 1, while
\* another holder, who has not minted, still reads 0.
C4_Witness ==
    \E h1 \in Address, h2 \in Address :
        /\ has_identity(Env, h1) /\ get_nonce(Env, h1) = 1
        /\ ~has_identity(Env, h2) /\ get_nonce(Env, h2) = 0
        /\ \E a \in MintCalls :
            a.caller = h2 /\ a.nonce = 0 /\ IsOk(CallMint(Env, a).result)

\* C5 (as stated): for every holder the value get_nonce returns never
\* decreases along any execution, eviction of the expired nonce record by the
\* host included.
C5_Original ==
    [][\A h \in Address : get_nonce(Env', h) >= get_nonce(Env, h)]_vars

\* C5 (amended): get_nonce(h) never decreases across contract invocations; the
\* only step that lowers it is the host evicting the holder's nonce record
\* after its live-until ledger has passed, and it then reads 0.
C5_NonceStep ==
    \A h \in Address :
        get_nonce(Env', h) < get_nonce(Env, h) =>
            /\ sequence' > sequence
            /\ non[h].live_until < sequence'
            /\ get_nonce(Env', h) = 0

C5_NonceInvocations ==
    EveryInvocation(Env, LAMBDA i :
        \A h \in Address : get_nonce(i.r.env, h) >= get_nonce(Env, h))

C5_NonceMonotonicUntilEviction == []C5_NonceInvocations /\ [][C5_NonceStep]_vars

\* C5 witness: a holder with an identity reads nonce 0 again, the record
\* written by its mint having been evicted.
C5_Witness ==
    \E h \in Address :
        /\ has_identity(Env, h)
        /\ get_nonce(Env, h) = 0
        /\ h \notin DOMAIN non
        /\ sequence > THIRTY_DAYS_IN_LEDGERS

\* C6: every stored identity record has tier = from_contributions(its
\* contributions); mint and every successful update_token re-establish it
\* (minted at 1500 -> Architect, updated to 3500 -> Legend).
C6_TierStored ==
    /\ \A id \in DOMAIN tok : tok[id].tier = from_contributions(tok[id].contributions)
    /\ EveryInvocation(Env, LAMBDA i :
        \A id \in DOMAIN i.r.env.tok :
            /\ i.r.env.tok[id].tier = from_contributions(i.r.env.tok[id].contributions)
            /\ i.r.env.tok[id].contributions = 1500 => i.r.env.tok[id].tier = "Architect"
            /\ i.r.env.tok[id].contributions = 3500 => i.r.env.tok[id].tier = "Legend")

\* A step that writes a record, new or rewritten, writes it with the tier of
\* its contributions.
C6_TierWritten ==
    \A id \in DOMAIN tok' :
        (id \notin DOMAIN tok \/ tok'[id] # tok[id]) =>
            tok'[id].tier = from_contributions(tok'[id].contributions)

C6_TierMatchesContributions == []C6_TierStored /\ [][C6_TierWritten]_vars

\* C6 witness: a token minted at 1500 contributions has been updated to 3500
\* and shows tier Legend.
C6_Witness ==
    \E id \in DOMAIN tok, m \in 1..Len(events), u \in 1..Len(events) :
        /\ m < u
        /\ events[m].topic = "identity_minted" /\ events[m].token_id = id
        /\ events[m].contributions = 1500 /\ events[m].tier = "Architect"
        /\ events[u].topic = "identity_updated" /\ events[u].token_id = id
        /\ events[u].contributions = 3500
        /\ tok[id].contributions = 3500 /\ tok[id].tier = "Legend"

\* C7 (as stated): update_token by a caller who is not the registered holder
\* of the supplied (existing) token fails with Unauthorized and changes
\* nothing.
C7_Original ==
    \A a \in UpdateTokenCalls :
        (a.token_id \in DOMAIN tok /\ get_holder_token(Env, a.caller) # Ok(a.token_id)) =>
            LET r == CallUpdateToken(Env, a)
            IN  IsErr(r.result, Unauthorized) /\ r.env = Env

\* C7 (amended): update_token by a caller who is not the registered holder of
\* the supplied token fails and changes nothing: with Unauthorized when the
\* caller holds a different token, with NoIdentityFound when the caller holds
\* no token at all.
C7_NonOwnerUpdateRejected ==
    \A a \in UpdateTokenCalls :
        get_holder_token(Env, a.caller) # Ok(a.token_id) =>
            LET r == CallUpdateToken(Env, a)
            IN  /\ r.env = Env
                /\ IsOk(get_holder_token(Env, a.caller)) => IsErr(r.result, Unauthorized)
                /\ ~IsOk(get_holder_token(Env, a.caller)) =>
                        IsErr(r.result, NoIdentityFound)

\* C7 witness: two holders have minted and one of them tries to update the
\* other's token, which is refused with Unauthorized.
C7_Witness ==
    \E a \in UpdateTokenCalls :
        /\ a.token_id \in DOMAIN tok
        /\ IsOk(get_holder_token(Env, a.caller))
        /\ get_holder_token(Env, a.caller).val # a.token_id
        /\ IsErr(CallUpdateToken(Env, a).result, Unauthorized)

\* C8: HasIdentity is terminal: a successful mint by h sets has_identity(h)
\* and makes get_user_token(h) the id it returned, and from then on every step
\* keeps has_identity(h) true and get_user_token(h) the same.
C8_MintEstablishes ==
    \A a \in MintCalls :
        LET r == CallMint(Env, a)
        IN  IsOk(r.result) =>
                /\ ~has_identity(Env, a.caller)
                /\ has_identity(r.env, a.caller)
                /\ get_user_token(r.env, a.caller) = Ok(r.result.val)

C8_IdentityKept ==
    \A h \in Address :
        has_identity(Env, h) =>
            /\ has_identity(Env', h)
            /\ get_user_token(Env', h) = get_user_token(Env, h)

C8_IdentityIsTerminal == []C8_MintEstablishes /\ [][C8_IdentityKept]_vars

\* C8 witness: a holder minted token 1, a further mint followed and the
\* ledger ran past the lifetime of the holder's nonce, which is gone, and the
\* holder still maps to token 1.
C8_Witness ==
    \E h \in Address :
        /\ has_identity(Env, h)
        /\ get_user_token(Env, h) = Ok(1)
        /\ Len(events) >= 2
        /\ sequence > THIRTY_DAYS_IN_LEDGERS
        /\ h \notin DOMAIN non

\* C9: for every holder the three accessors agree: has_identity(h) iff
\* get_user_token(h) succeeds (else NoIdentityFound) iff list_tokens_of_user(h)
\* is the one-element sequence of that id (else empty); the list never has
\* more than one element.
C9_AccessorsAgree ==
    \A h \in Address :
        /\ has_identity(Env, h) <=> IsOk(get_user_token(Env, h))
        /\ ~has_identity(Env, h) =>
            /\ get_user_token(Env, h) = Err(NoIdentityFound)
            /\ list_tokens_of_user(Env, h) = <<>>
        /\ has_identity(Env, h) =>
            list_tokens_of_user(Env, h) = <<get_user_token(Env, h).val>>
        /\ Len(list_tokens_of_user(Env, h)) <= 1

\* C9 witness: one holder has an identity (a one-element list) and another
\* has none (an empty list).
C9_Witness ==
    \E h1 \in Address, h2 \in Address :
        /\ has_identity(Env, h1) /\ Len(list_tokens_of_user(Env, h1)) = 1
        /\ ~has_identity(Env, h2) /\ list_tokens_of_user(Env, h2) = <<>>

\* C10: get_mint_fee is 0 while no Config exists; while the stored fee is
\* positive no mint succeeds, and a mint that passes the username, identity
\* and nonce checks fails with InsufficientPayment and changes nothing (the
\* nonce included); while the stored fee is 0 such a mint succeeds.
PassesMintChecks(e, a) ==
    /\ a.username # ""
    /\ ~has_identity(e, a.caller)
    /\ a.nonce = get_nonce(e, a.caller)

C10_FeeGating ==
    /\ config = None => get_mint_fee(Env) = 0
    /\ config # None => get_mint_fee(Env) = config[1].mint_fee
    /\ \A a \in MintCalls :
        LET r == CallMint(Env, a)
        IN  /\ get_mint_fee(Env) > 0 => ~IsOk(r.result)
            /\ (get_mint_fee(Env) > 0 /\ PassesMintChecks(Env, a)) =>
                /\ IsErr(r.result, InsufficientPayment)
                /\ r.env = Env
                /\ get_nonce(r.env, a.caller) = get_nonce(Env, a.caller)
            /\ (config # None /\ get_mint_fee(Env) = 0 /\ PassesMintChecks(Env, a)) =>
                IsOk(r.result)

\* C10 witness: the admin raised the fee after a first mint, and a mint that
\* would otherwise succeed is refused with InsufficientPayment.
C10_Witness ==
    /\ DOMAIN tok # {}
    /\ get_mint_fee(Env) > 0
    /\ \E a \in MintCalls :
        PassesMintChecks(Env, a) /\ IsErr(CallMint(Env, a).result, InsufficientPayment)

\* C11: initialize succeeds exactly once: while no Config exists every
\* initialize call succeeds and stores exactly its four arguments as Config,
\* touching nothing else; once a Config exists every initialize call, with any
\* arguments, fails with AlreadyInitialized and leaves the state as it was; and
\* no step of the system removes a Config that exists.
C11_InitializeOnce ==
    \A a \in InitializeCalls :
        LET r == CallInitialize(Env, a)
        IN  IF config = None
            THEN /\ IsOk(r.result)
                 /\ r.env = [Env EXCEPT !.config =
                                Some([admin |-> a.admin,
                                      access_control |-> a.access_control,
                                      treasury |-> a.treasury,
                                      mint_fee |-> a.mint_fee])]
            ELSE /\ IsErr(r.result, AlreadyInitialized)
                 /\ r.env = Env

C11_ConfigKept == config # None => config' # None

C11_InitializeExactlyOnce == []C11_InitializeOnce /\ [][C11_ConfigKept]_vars

\* C11 witness: the contract was initialized with an access control and a
\* treasury other than the admin, a mint and a ledger close followed, and an
\* initialize call naming another admin and another fee is refused with
\* AlreadyInitialized.
C11_Witness ==
    /\ config # None
    /\ config[1].access_control # config[1].admin
    /\ config[1].treasury # config[1].admin
    /\ DOMAIN tok # {}
    /\ sequence > 0
    /\ \E a \in InitializeCalls :
        /\ a.admin # config[1].admin
        /\ a.mint_fee # config[1].mint_fee
        /\ IsErr(CallInitialize(Env, a).result, AlreadyInitialized)

\* C12: Config is admin-gated: once a Config exists, each of set_mint_fee,
\* set_access_control and set_treasury fails with NotAdmin and changes nothing
\* when its caller is not the stored admin, and when its caller is the stored
\* admin it succeeds and changes exactly its own Config field to the new value
\* (the other three fields and all registry state stay); no invocation and no
\* step changes the stored admin.
C12_SetterGated(r, caller, expected) ==
    IF caller # config[1].admin
    THEN IsErr(r.result, NotAdmin) /\ r.env = Env
    ELSE IsOk(r.result) /\ r.env = [Env EXCEPT !.config = Some(expected)]

C12_Setters ==
    config # None =>
        /\ \A a \in SetMintFeeCalls :
            C12_SetterGated(CallSetMintFee(Env, a), a.admin,
                            [config[1] EXCEPT !.mint_fee = a.new_fee])
        /\ \A a \in SetAccessControlCalls :
            C12_SetterGated(CallSetAccessControl(Env, a), a.admin,
                            [config[1] EXCEPT !.access_control = a.access_control])
        /\ \A a \in SetTreasuryCalls :
            C12_SetterGated(CallSetTreasury(Env, a), a.admin,
                            [config[1] EXCEPT !.treasury = a.treasury])
        /\ EveryInvocation(Env, LAMBDA i :
            /\ i.r.env.config # None
            /\ i.r.env.config[1].admin = config[1].admin)

C12_AdminKept ==
    config # None => (config' # None /\ config'[1].admin = config[1].admin)

C12_ConfigAdminGated == []C12_Setters /\ [][C12_AdminKept]_vars

\* C12 witness: a Config and an identity exist, a setter called by a
\* non-admin is refused with NotAdmin, and the admin's call would change the
\* treasury to another address.
C12_Witness ==
    /\ config # None
    /\ DOMAIN tok # {}
    /\ \E a \in SetTreasuryCalls, b \in SetTreasuryCalls :
        /\ a.admin # config[1].admin
        /\ IsErr(CallSetTreasury(Env, a).result, NotAdmin)
        /\ b.admin = config[1].admin
        /\ b.treasury # config[1].treasury
        /\ IsOk(CallSetTreasury(Env, b).result)
        /\ CallSetTreasury(Env, b).env.config[1].treasury = b.treasury

\* C13 (as stated): while no Config exists the three admin setters and mint
\* fail with NotInitialized and change no state.
C13_Original ==
    config = None =>
        /\ \A a \in SetMintFeeCalls :
            LET r == CallSetMintFee(Env, a)
            IN  IsErr(r.result, NotInitialized) /\ r.env = Env
        /\ \A a \in SetAccessControlCalls :
            LET r == CallSetAccessControl(Env, a)
            IN  IsErr(r.result, NotInitialized) /\ r.env = Env
        /\ \A a \in SetTreasuryCalls :
            LET r == CallSetTreasury(Env, a)
            IN  IsErr(r.result, NotInitialized) /\ r.env = Env
        /\ \A a \in MintCalls :
            LET r == CallMint(Env, a)
            IN  IsErr(r.result, NotInitialized) /\ r.env = Env

\* C13 (amended): a Config comes to exist only by a successful initialize and
\* then stays; while no Config exists the three admin setters fail with
\* NotInitialized and change no state, whereas mint reads the fee through the
\* lenient get_mint_fee (0), never returns NotInitialized, and succeeds when
\* its username, identity and nonce checks pass.
C13_Uninitialized ==
    config = None =>
        /\ \A a \in SetMintFeeCalls :
            LET r == CallSetMintFee(Env, a)
            IN  IsErr(r.result, NotInitialized) /\ r.env = Env
        /\ \A a \in SetAccessControlCalls :
            LET r == CallSetAccessControl(Env, a)
            IN  IsErr(r.result, NotInitialized) /\ r.env = Env
        /\ \A a \in SetTreasuryCalls :
            LET r == CallSetTreasury(Env, a)
            IN  IsErr(r.result, NotInitialized) /\ r.env = Env
        /\ get_mint_fee(Env) = 0
        /\ \A a \in MintCalls :
            LET r == CallMint(Env, a)
            IN  /\ ~IsErr(r.result, NotInitialized)
                /\ PassesMintChecks(Env, a) => IsOk(r.result)

C13_ConfigByInitialize ==
    /\ config # None => config' # None
    /\ (config = None /\ config' # None) =>
        \E a \in InitializeCalls :
            LET r == CallInitialize(Env, a)
            IN  IsOk(r.result) /\ r.env = Env'

C13_NotInitializedGating == []C13_Uninitialized /\ [][C13_ConfigByInitialize]_vars

\* C13 witness: no Config exists, a holder has nevertheless minted token 1,
\* and a setter call is refused with NotInitialized.
C13_Witness ==
    /\ config = None
    /\ 1 \in DOMAIN tok
    /\ \E a \in SetMintFeeCalls :
        IsErr(CallSetMintFee(Env, a).result, NotInitialized)

\* C14: every invocation of initialize, mint, update_token or an admin setter
\* that returns an error, of whatever kind, hands back the environment it was
\* given: no storage entry written, no event published, before any host
\* rollback; and the only steps that change the state are invocations that
\* returned Ok and the host closing ledgers.  (get_token_data, get_user_token
\* and get_token_svg only read.)
C14_FailuresWriteNothing ==
    EveryInvocation(Env, LAMBDA i : ~IsOk(i.r.result) => i.r.env = Env)

C14_OnlySuccessWrites ==
    Env' # Env =>
        \/ SomeInvocation(Env, LAMBDA i : IsOk(i.r.result) /\ i.r.env = Env')
        \/ /\ sequence' > sequence
           /\ <<config', token_ctr', tok', hld', has', events'>>
                = <<config, token_ctr, tok, hld, has, events>>

C14_ErrorsAreAtomic == []C14_FailuresWriteNothing /\ [][C14_OnlySuccessWrites]_vars

\* C14 witness: with a Config of positive fee and one identity stored, an
\* initialize, a mint that passes the checks before the fee, an update_token,
\* a setter and the three failing accessors all return errors.
C14_Witness ==
    /\ config # None
    /\ get_mint_fee(Env) > 0
    /\ DOMAIN tok # {}
    /\ \E a \in InitializeCalls : ~IsOk(CallInitialize(Env, a).result)
    /\ \E a \in MintCalls :
        PassesMintChecks(Env, a) /\ IsErr(CallMint(Env, a).result, InsufficientPayment)
    /\ \E a \in UpdateTokenCalls : IsErr(CallUpdateToken(Env, a).result, Unauthorized)
    /\ \E a \in UpdateTokenCalls : IsErr(CallUpdateToken(Env, a).result, NoIdentityFound)
    /\ \E a \in SetMintFeeCalls : IsErr(CallSetMintFee(Env, a).result, NotAdmin)
    /\ \E id \in TokenIds : IsErr(get_token_data(Env, id), TokenNotFound)
    /\ \E id \in TokenIds : IsErr(get_token_svg(Env, id), TokenNotFound)
    /\ \E h \in Address : IsErr(get_user_token(Env, h), NoIdentityFound)

\* The identity_minted events of holder h in the event stream.
MintedBy(log, h) ==
    {k \in 1..Len(log) : log[k].topic = "identity_minted" /\ log[k].caller = h}

\* C15: two mint requests for the same holder, both with a non-empty username
\* and the holder's current nonce, under fee 0 and with no identity yet, each
\* run as one atomic invocation one after the other in either order: the one
\* that runs first succeeds, the one that runs second fails with
\* AlreadyHasIdentity and writes nothing, and exactly one token id is
\* consumed; along every execution a holder has at most one successful mint.
C15_RacingPair ==
    \A a \in MintCalls, b \in MintCalls :
        (a.caller = b.caller /\ get_mint_fee(Env) = 0
            /\ PassesMintChecks(Env, a) /\ PassesMintChecks(Env, b)) =>
            LET first == CallMint(Env, a)
                second == CallMint(first.env, b)
            IN  /\ IsOk(first.result)
                /\ IsErr(second.result, AlreadyHasIdentity)
                /\ second.env = first.env
                /\ get_next_token_id(second.env) = get_next_token_id(Env) + 1
                /\ DOMAIN second.env.tok = DOMAIN tok \cup {first.result.val}
                /\ Cardinality(MintedBy(second.env.events, a.caller)) = 1

C15_OneMintPerHolder ==
    \A h \in Address : Cardinality(MintedBy(events, h)) <= 1

C15_NoSecondWinner ==
    \A h \in Address :
        has_identity(Env, h) => MintedBy(events', h) = MintedBy(events, h)

C15_ConcurrentMints ==
    [](C15_RacingPair /\ C15_OneMintPerHolder) /\ [][C15_NoSecondWinner]_vars

\* C15 witness: another holder has already minted, and a holder without
\* identity has two different requests in hand that both pass the checks; the
\* first to run gets token 2 and the other is then refused.
C15_Witness ==
    /\ get_next_token_id(Env) = 2
    /\ \E a \in MintCalls, b \in MintCalls :
        /\ a.caller = b.caller /\ a # b
        /\ get_mint_fee(Env) = 0
        /\ PassesMintChecks(Env, a) /\ PassesMintChecks(Env, b)
        /\ CallMint(Env, a).result = Ok(2)
        /\ IsErr(CallMint(CallMint(Env, a).env, b).result, AlreadyHasIdentity)
        /\ CallMint(Env, b).result = Ok(2)
        /\ IsErr(CallMint(CallMint(Env, b).env, a).result, AlreadyHasIdentity)

\* The contributions the tier table is checked on: every value up to just
\* past the last boundary, and larger ones up to 2^31 - 1.
TierInputs == (0..5001) \cup {65535, 65536, 16777216, 2147483646, 2147483647}

\* The tier the table of intervals assigns to c.
TierOfInterval(c) ==
    CASE c \in 0..199 -> "Novice"
      [] c \in 200..999 -> "Pro"
      [] c \in 1000..2999 -> "Architect"
      [] c \in 3000..4999 -> "Legend"
      [] c >= 5000 -> "Singularity"

\* The order Novice < Pro < Architect < Legend < Singularity.
TierOrder == <<"Novice", "Pro", "Architect", "Legend", "Singularity">>
TierRanks == [t \in Tiers |-> CHOOSE k \in 1..Len(TierOrder) : TierOrder[k] = t]
TierRank(t) == TierRanks[t]

\* The contributions at both ends of every tier; the top end of Singularity
\* is taken at 2^31 - 1, the largest integer TLC represents, in place of
\* u32::MAX.
TierBoundaries == {0, 199, 200, 999, 1000, 2999, 3000, 4999, 5000, 2147483647}

\* from_contributions on the inputs: a tier for every one, the tier of its
\* interval, and never a lower tier for more contributions.
C16_TableHolds ==
    /\ \A c \in TierInputs :
        /\ from_contributions(c) \in Tiers
        /\ from_contributions(c) = TierOfInterval(c)
        /\ (c < 2147483647 /\ (c + 1) \in TierInputs) =>
            TierRank(from_contributions(c)) <= TierRank(from_contributions(c + 1))
    /\ \A c1 \in TierBoundaries, c2 \in TierInputs \ (1..4998) :
        (c1 <= c2 => TierRank(from_contributions(c1)) <= TierRank(from_contributions(c2)))
        /\ (c2 <= c1 => TierRank(from_contributions(c2)) <= TierRank(from_contributions(c1)))

\* C16: from_contributions is total and monotonic over u32: it yields a tier
\* for every input, Novice on [0,200), Pro on [200,1000), Architect on
\* [1000,3000), Legend on [3000,5000) and Singularity from 5000 upwards, so
\* c1 <= c2 implies tier(c1) <= tier(c2); every stored record carries the tier
\* of its interval, so does the record an update to any tier boundary leaves,
\* and an update that does not lower the contributions does not lower the
\* tier.
C16_TierTable ==
    /\ C16_TableHolds
    /\ \A id \in DOMAIN tok : tok[id].tier = TierOfInterval(tok[id].contributions)
    /\ \A h \in DOMAIN hld, c \in TierBoundaries :
        LET r == update_token(Env, h, hld[h], "alice", c, <<>>)
        IN  /\ IsOk(r.result)
            /\ r.env.tok[hld[h]].tier = TierOfInterval(c)
            /\ c >= tok[hld[h]].contributions =>
                TierRank(r.env.tok[hld[h]].tier) >= TierRank(tok[hld[h]].tier)
            /\ c <= tok[hld[h]].contributions =>
                TierRank(r.env.tok[hld[h]].tier) <= TierRank(tok[hld[h]].tier)

C16_TierStep ==
    \A id \in DOMAIN tok :
        (id \in DOMAIN tok' /\ tok'[id].contributions >= tok[id].contributions) =>
            TierRank(tok'[id].tier) >= TierRank(tok[id].tier)

C16_TierTotalMonotonic == []C16_TierTable /\ [][C16_TierStep]_vars

\* C16 witness: a token minted at 1500 contributions (Architect) has been
\* updated to 3500 and is Legend, and its holder can take it down to 199
\* (Novice) or up to 2^31 - 1 (Singularity).
C16_Witness ==
    /\ Len(events) = 2
    /\ events[1].topic = "identity_minted"
    /\ events[1].contributions = 1500 /\ events[1].tier = "Architect"
    /\ events[2].topic = "identity_updated"
    /\ 1 \in DOMAIN tok
    /\ tok[1].contributions = 3500 /\ tok[1].tier = "Legend"
    /\ \E h \in DOMAIN hld :
        /\ hld[h] = 1
        /\ update_token(Env, h, 1, "alice", 199, <<>>).env.tok[1].tier = "Novice"
        /\ update_token(Env, h, 1, "alice", 2147483647, <<>>).env.tok[1].tier
                = "Singularity"

\* The badge of a tier: its fill, its text colour and its name in the fixed
\* template.
BadgeFill(t) ==
    CASE t = "Novice" -> "#b0c4de"
      [] t = "Pro" -> "#90ee90"
      [] t = "Architect" -> "#ffd700"
      [] t = "Legend" -> "#ff8c00"
      [] t = "Singularity" -> "#8a2be2"

BadgeTextColour(t) == IF t \in {"Legend", "Singularity"} THEN "#fff" ELSE "#181c2f"

Badge(t) == SvgTemplate(BadgeFill(t), BadgeTextColour(t), t)

\* C17: after any mints and updates, get_token_svg of an existing token
\* returns the badge of the tier of the token's current contributions (after
\* an update to any tier boundary, the badge of that boundary's tier), the
\* same whatever the record's username, proof data and timestamps are, and
\* get_token_svg of an id with no record fails with TokenNotFound.
C17_BadgeOfCurrentTier ==
    \A id \in TokenIds :
        IF id \in DOMAIN tok
        THEN /\ get_token_svg(Env, id) = Ok(Badge(TierOfInterval(tok[id].contributions)))
             /\ \A h \in DOMAIN hld, c \in TierBoundaries :
                 hld[h] = id =>
                    get_token_svg(update_token(Env, h, id, "alice", c, <<>>).env, id)
                        = Ok(Badge(TierOfInterval(c)))
             /\ \A u \in Usernames, p \in ProofData, t \in {0, timestamp + 1} :
                 generate_svg([tok[id] EXCEPT !.username = u, !.proof_data = p,
                                              !.minted_at = t, !.updated_at = t])
                    = get_token_svg(Env, id).val
        ELSE get_token_svg(Env, id) = Err(TokenNotFound)

\* C17 witness: token 1, minted as Architect, has been updated into Legend
\* under another username; its badge is the Legend one, with white text, and
\* token 2 does not exist.
C17_Witness ==
    /\ Len(events) = 2
    /\ events[1].topic = "identity_minted" /\ events[1].tier = "Architect"
    /\ events[2].topic = "identity_updated" /\ events[2].username # events[1].username
    /\ 1 \in DOMAIN tok
    /\ tok[1].tier = "Legend"
    /\ get_token_svg(Env, 1) = Ok(SvgTemplate("#ff8c00", "#fff", "Legend"))
    /\ get_token_svg(Env, 2) = Err(TokenNotFound)

\* C18: a successful update_token(caller, token_id, username, contributions,
\* proof_data) overwrites exactly username, contributions, tier (recomputed),
\* proof_data and updated_at (the ledger time) of that one record; minted_at
\* of the record, every other record, every holder->token mapping and
\* has_identity flag, the token counter, every nonce and Config stay as they
\* were (the identity_updated event is the only other effect).
C18_UpdateFrame ==
    \A a \in UpdateTokenCalls :
        LET r == CallUpdateToken(Env, a)
        IN  IsOk(r.result) =>
            /\ a.token_id \in DOMAIN tok
            /\ DOMAIN r.env.tok = DOMAIN tok
            /\ r.env.tok[a.token_id] =
                    [username |-> a.username, contributions |-> a.contributions,
                     tier |-> from_contributions(a.contributions),
                     minted_at |-> tok[a.token_id].minted_at,
                     updated_at |-> timestamp, proof_data |-> a.proof_data]
            /\ \A id \in DOMAIN tok \ {a.token_id} : r.env.tok[id] = tok[id]
            /\ r.env.hld = hld
            /\ r.env.has = has
            /\ r.env.token_ctr = token_ctr
            /\ r.env.non = non
            /\ \A h \in Address : get_nonce(r.env, h) = get_nonce(Env, h)
            /\ r.env.config = config
            /\ r.env.sequence = sequence /\ r.env.timestamp = timestamp

\* A step that rewrites a record keeps the record's minted_at and everything
\* outside the record.
C18_UpdateStep ==
    \A id \in DOMAIN tok :
        (id \in DOMAIN tok' /\ tok'[id] # tok[id]) =>
            /\ tok'[id].minted_at = tok[id].minted_at
            /\ tok'[id].updated_at = timestamp
            /\ \A other \in DOMAIN tok \ {id} : tok'[other] = tok[other]
            /\ DOMAIN tok' = DOMAIN tok
            /\ <<config', token_ctr', hld', has', non'>>
                = <<config, token_ctr, hld, has, non>>

C18_UpdateTouchesOneRecord == []C18_UpdateFrame /\ [][C18_UpdateStep]_vars

\* C18 witness: a token minted at ledger time 0 was updated after the ledger
\* had advanced: its contributions, tier and updated_at are new, its
\* minted_at is still 0, and its holder's mapping and counter are as the mint
\* left them.
C18_Witness ==
    /\ Len(events) = 2
    /\ events[1].topic = "identity_minted" /\ events[1].token_id = 1
    /\ events[2].topic = "identity_updated" /\ events[2].token_id = 1
    /\ events[2].contributions # events[1].contributions
    /\ 1 \in DOMAIN tok
    /\ tok[1].minted_at = 0
    /\ tok[1].updated_at > 0
    /\ tok[1].contributions = events[2].contributions
    /\ get_user_token(Env, events[1].caller) = Ok(1)
    /\ get_next_token_id(Env) = 2

\* The mint preconditions that call a violates in environment e, as error
\* kinds in the order EmptyUsername, AlreadyHasIdentity, InvalidNonce,
\* InsufficientPayment.
MintViolations(e, a) ==
    LET checks == << [error |-> EmptyUsername, violated |-> a.username = ""],
                     [error |-> AlreadyHasIdentity, violated |-> has_identity(e, a.caller)],
                     [error |-> InvalidNonce, violated |-> a.nonce # get_nonce(e, a.caller)],
                     [error |-> InsufficientPayment, violated |-> get_mint_fee(e) > 0] >>
        broken(c) == c.violated
    IN  SelectSeq(checks, broken)

\* C19: a mint that violates several preconditions at once returns the error
\* of the first violated one in the order EmptyUsername, AlreadyHasIdentity,
\* InvalidNonce, InsufficientPayment, and a mint that violates none succeeds.
C19_FirstViolationWins ==
    \A a \in MintCalls :
        LET r == CallMint(Env, a)
            v == MintViolations(Env, a)
        IN  IF v = <<>> THEN IsOk(r.result)
            ELSE r.result = Err(v[1].error)

\* C19 witness: under a positive fee, with one holder that has an identity
\* and one that has none, there are calls that violate all four preconditions
\* (EmptyUsername wins), the last three (AlreadyHasIdentity wins) and the
\* last two (InvalidNonce wins).
C19_Witness ==
    /\ \E a \in MintCalls :
        /\ Len(MintViolations(Env, a)) = 4
        /\ IsErr(CallMint(Env, a).result, EmptyUsername)
    /\ \E a \in MintCalls :
        /\ Len(MintViolations(Env, a)) = 3
        /\ a.username # ""
        /\ IsErr(CallMint(Env, a).result, AlreadyHasIdentity)
    /\ \E a \in MintCalls :
        /\ Len(MintViolations(Env, a)) = 2
        /\ a.username # "" /\ ~has_identity(Env, a.caller)
        /\ IsErr(CallMint(Env, a).result, InvalidNonce)

\* C20: referential integrity: every token id a holder maps to has an
\* identity record, before and after every invocation, and records and
\* mappings are never removed; so update_token never returns TokenNotFound:
\* a caller with no identity gets NoIdentityFound, a caller whose token is not
\* the supplied token_id gets Unauthorized (whether or not that id has a
\* record), and the holder of token_id succeeds.
C20_Integrity ==
    /\ \A h \in DOMAIN hld : hld[h] \in DOMAIN tok
    /\ EveryInvocation(Env, LAMBDA i :
        \A h \in DOMAIN i.r.env.hld : i.r.env.hld[h] \in DOMAIN i.r.env.tok)
    /\ \A a \in UpdateTokenCalls :
        LET r == CallUpdateToken(Env, a)
        IN  /\ ~IsErr(r.result, TokenNotFound)
            /\ a.caller \notin DOMAIN hld => IsErr(r.result, NoIdentityFound)
            /\ (a.caller \in DOMAIN hld /\ hld[a.caller] # a.token_id) =>
                    IsErr(r.result, Unauthorized)
            /\ (a.caller \in DOMAIN hld /\ hld[a.caller] = a.token_id) =>
                    IsOk(r.result)

C20_NothingRemoved ==
    /\ DOMAIN tok \subseteq DOMAIN tok'
    /\ \A h \in DOMAIN hld : h \in DOMAIN hld' /\ hld'[h] = hld[h]

C20_ReferentialIntegrity == []C20_Integrity /\ [][C20_NothingRemoved]_vars

\* C20 witness: one holder owns a token and another has none: the owner
\* naming an id that has no record gets Unauthorized, and the other caller
\* naming the existing token gets NoIdentityFound.
C20_Witness ==
    \E a \in UpdateTokenCalls, b \in UpdateTokenCalls :
        /\ a.caller \in DOMAIN hld
        /\ a.token_id \notin DOMAIN tok
        /\ IsErr(CallUpdateToken(Env, a).result, Unauthorized)
        /\ b.caller \notin DOMAIN hld
        /\ b.token_id \in DOMAIN tok
        /\ IsErr(CallUpdateToken(Env, b).result, NoIdentityFound)

\* C21: the registry is a bijection sized by the counter: identity records
\* exist for exactly the token ids 1 .. next_token_id - 1, each of those ids
\* is the token of exactly one holder, no two holders map to the same id, and
\* the holders with has_identity = true number next_token_id - 1.
C21_RegistryBijection ==
    /\ DOMAIN tok = 1..(get_next_token_id(Env) - 1)
    /\ \A id \in DOMAIN tok :
        Cardinality({h \in Address : get_user_token(Env, h) = Ok(id)}) = 1
    /\ \A h1 \in DOMAIN hld, h2 \in DOMAIN hld : hld[h1] = hld[h2] => h1 = h2
    /\ \A h \in DOMAIN hld : hld[h] \in DOMAIN tok
    /\ Cardinality({h \in Address : has_identity(Env, h)}) = get_next_token_id(Env) - 1
    /\ DOMAIN hld \subseteq Address /\ DOMAIN has \subseteq Address

\* C21 witness: after a ledger has closed, two holders own the two tokens
\* 1 and 2, both are flagged, and the counter stands at 3.
C21_Witness ==
    /\ get_next_token_id(Env) = 3
    /\ DOMAIN tok = {1, 2}
    /\ Cardinality({h \in Address : has_identity(Env, h)}) = 2
    /\ {hld[h] : h \in DOMAIN hld} = {1, 2}
    /\ sequence > 0

\* C22: replay protection survives nonce expiry: although the host may evict
\* a holder's nonce record, so that get_nonce reads 0 again, every mint for a
\* holder that has minted fails, whatever nonce it carries, so no request
\* (caller, nonce) succeeds twice and a holder has at most one successful
\* mint in all; get_nonce(h) is always 0 or 1, and 1 only with has_identity(h).
C22_ReplayRefused ==
    /\ \A h \in Address :
        /\ get_nonce(Env, h) \in {0, 1}
        /\ get_nonce(Env, h) = 1 => has_identity(Env, h)
        /\ Cardinality(MintedBy(events, h)) <= 1
        /\ MintedBy(events, h) # {} <=> has_identity(Env, h)
    /\ \A a \in MintCalls :
        LET r == CallMint(Env, a)
        IN  /\ MintedBy(events, a.caller) # {} => ~IsOk(r.result)
            /\ IsOk(r.result) => (a.nonce = 0 /\ get_nonce(r.env, a.caller) = 1)

C22_MintedOnce ==
    \A h \in Address :
        MintedBy(events, h) # {} =>
            /\ MintedBy(events', h) = MintedBy(events, h)
            /\ has_identity(Env', h)

C22_ReplayProtectionSurvivesExpiry == []C22_ReplayRefused /\ [][C22_MintedOnce]_vars

\* C22 witness: a holder minted with nonce 0, its nonce record has since been
\* evicted and get_nonce reads 0 again, and the same request sent again is
\* refused with AlreadyHasIdentity.
C22_Witness ==
    \E a \in MintCalls :
        /\ Len(events) >= 1
        /\ events[1].topic = "identity_minted" /\ events[1].caller = a.caller
        /\ a.username = events[1].username
        /\ a.contributions = events[1].contributions
        /\ a.nonce = 0
        /\ a.caller \notin DOMAIN non
        /\ get_nonce(Env, a.caller) = 0
        /\ get_mint_fee(Env) = 0
        /\ IsErr(CallMint(Env, a).result, AlreadyHasIdentity)

\* Signatures and referrers a mint can be sent with: the all-zero signature
\* and another one; no referrer, and any address as referrer (the caller
\* itself included).
AnySignatures == {0, 1}
AnyReferrers == {None} \cup {Some(h) : h \in Address}

\* C23: the signature and referrer arguments of mint have no influence: from
\* any state, two mint calls that differ only in signature and/or referrer
\* return the same result (the same token id or the same error) and leave the
\* same state and the same events.
C23_SignatureReferrerIgnored ==
    \A a \in MintCalls :
        LET r == CallMint(Env, a)
        IN  \A s \in AnySignatures, f \in AnyReferrers :
                LET q == mint(Env, a.caller, s, a.username, a.contributions,
                              a.proof_data, f, a.nonce)
                IN  /\ q.result = r.result
                    /\ q.env = r.env
                    /\ q.env.events = r.env.events

\* C23 witness: a holder without identity can mint, and sending the request
\* with the other signature and with itself as referrer mints the same token
\* with the same event; a holder with identity is refused either way.
C23_Witness ==
    /\ \E a \in MintCalls :
        LET q == mint(Env, a.caller, 1, a.username, a.contributions, a.proof_data,
                      Some(a.caller), a.nonce)
        IN  /\ a.signature = 0 /\ a.referrer = None
            /\ IsOk(CallMint(Env, a).result)
            /\ IsOk(q.result)
            /\ Len(q.env.events) = Len(events) + 1
            /\ q.env.events = CallMint(Env, a).env.events
    /\ \E a \in MintCalls :
        /\ has_identity(Env, a.caller)
        /\ ~IsOk(mint(Env, a.caller, 1, a.username, a.contributions, a.proof_data,
                       Some(a.caller), a.nonce).result)

\* The positions of the identity_minted events for token id in the log.
MintedAs(log, id) ==
    {k \in 1..Len(log) : log[k].topic = "identity_minted" /\ log[k].token_id = id}

\* C24: the event log mirrors the registry: a successful mint appends exactly
\* one identity_minted event and a successful update_token exactly one
\* identity_updated event, each carrying the call's caller, token id,
\* username, contributions and tier; every other invocation appends none; so
\* each existing token id has exactly one identity_minted event, whose caller
\* is the holder mapped to that token and whose tier is the classification of
\* its contributions, every identity_minted event is of an existing token,
\* and the identity_minted events appear in increasing token-id order.  The
\* log only ever grows, by one event at a time.
C24_LogMirrorsRegistry ==
    /\ \A id \in DOMAIN tok :
        /\ Cardinality(MintedAs(events, id)) = 1
        /\ \A k \in MintedAs(events, id) :
            /\ get_user_token(Env, events[k].caller) = Ok(id)
            /\ events[k].tier = from_contributions(events[k].contributions)
    /\ \A k \in 1..Len(events) :
        /\ events[k].token_id \in DOMAIN tok
        /\ events[k].topic \in {"identity_minted", "identity_updated"}
        /\ \A j \in 1..(k - 1) :
            (events[j].topic = "identity_minted" /\ events[k].topic = "identity_minted")
                => events[j].token_id < events[k].token_id

C24_OneEventPerSuccess ==
    /\ \A a \in MintCalls :
        LET r == CallMint(Env, a)
        IN  IF IsOk(r.result)
            THEN r.env.events = Append(events,
                    [topic |-> "identity_minted", caller |-> a.caller,
                     token_id |-> r.result.val, username |-> a.username,
                     contributions |-> a.contributions,
                     tier |-> r.env.tok[r.result.val].tier])
            ELSE r.env.events = events
    /\ \A a \in UpdateTokenCalls :
        LET r == CallUpdateToken(Env, a)
        IN  IF IsOk(r.result)
            THEN r.env.events = Append(events,
                    [topic |-> "identity_updated", caller |-> a.caller,
                     token_id |-> a.token_id, username |-> a.username,
                     contributions |-> a.contributions,
                     tier |-> r.env.tok[a.token_id].tier])
            ELSE r.env.events = events
    /\ EveryInvocation(Env, LAMBDA i :
        i.op \notin {"mint", "update_token"} => i.r.env.events = events)

C24_LogGrowsByOne ==
    events' # events =>
        /\ Len(events') = Len(events) + 1
        /\ SubSeq(events', 1, Len(events)) = events
        /\ \/ DOMAIN tok' # DOMAIN tok
           \/ \E id \in DOMAIN tok : tok'[id].updated_at = timestamp

C24_EventLogMirrorsRegistry ==
    [](C24_LogMirrorsRegistry /\ C24_OneEventPerSuccess) /\ [][C24_LogGrowsByOne]_vars

\* C24 witness: token 1 was minted and later updated to other contributions:
\* the log holds its one identity_minted event, by its holder and with the
\* tier it was minted at, followed by one identity_updated event, and a mint
\* that fails from here would add nothing.
C24_Witness ==
    /\ Len(events) = 2
    /\ MintedAs(events, 1) = {1}
    /\ events[2].topic = "identity_updated" /\ events[2].token_id = 1
    /\ events[2].caller = events[1].caller
    /\ events[2].tier # events[1].tier
    /\ 1 \in DOMAIN tok
    /\ tok[1].tier = events[2].tier
    /\ get_user_token(Env, events[1].caller) = Ok(1)
    /\ \E a \in MintCalls :
        ~IsOk(CallMint(Env, a).result) /\ CallMint(Env, a).env.events = events

====
